---------------------------- MODULE Spec2Model ----------------------------
(***************************************************************************)
(* A model of litematicRender: the model loader (src/loader.py), the       *)
(* isometric renderer (src/renderer.py) and the batch front end            *)
(* (src/main.py).                                                          *)
(*                                                                         *)
(* Strings.  A Python string is modelled as a sequence of tokens, each     *)
(* token standing for a fixed run of characters ("minecraft:", "block/",   *)
(* "_sign", ...).  The token alphabet is chosen so that none of the        *)
(* patterns the code searches for ("minecraft:", "block/", "item/", "#",   *)
(* "_sign", "_wall_sign" and the transparency keywords) occurs inside      *)
(* another token or across a token boundary, and every string is written   *)
(* with one tokenisation only; token-wise startswith / in / replace then   *)
(* agree with Python's character-wise ones.                                *)
(*                                                                         *)
(* JSON.  A JSON value is a tagged record: [t |-> "dict", v |-> function], *)
(* [t |-> "str", v |-> tokens], [t |-> "list", v |-> sequence],            *)
(* [t |-> "num", v |-> n]; Python's None is [t |-> "none"], and a raised   *)
(* exception is the value [t |-> "raise"].                                 *)
(***************************************************************************)
EXTENDS Integers, Sequences, FiniteSets, TLC

VARIABLES
    \* the asset provider
    models,         \* asset store: <<model_type, clean_name>> -> model JSON
    textures,       \* asset store: the texture names that have an image
    \* LitematicRenderer.render
    reg,            \* renderer.reg: cell -> block identifier
    xyz,            \* the loop variables <<x, y, z>>
    canvas,         \* the pastes made onto the canvas, in order
    block_sprites,  \* renderer.block_sprites: cache key -> sprite
    rpc,            \* "sweep", "swept", "saved", "hung"
    visits,         \* history: one record per executed loop body
    \* LitematicRenderer.render_block_to_sprite, statement by statement
    sp_model,       \* model: the merged model parse_model returned
    sp_visible,     \* visible_faces
    sp_elem,        \* index of the current element of the element loop
    sp_face,        \* index into render_order of the current face
    sp_ref,         \* texture_ref
    sp_sprite,      \* the faces pasted onto the sprite, in order
    sp_skipped,     \* history: the faces left out, with the reason
    sp_pc,          \* "face", "while", "after", "store", "done"
    \* parse_model, call by call
    rs_name,        \* block_name of the outermost call
    rs_arg,         \* block_name of the call being entered
    rs_stack,       \* model_data of the calls waiting for their parent
    rs_ret,         \* the value being returned
    rs_found,       \* what the outermost call's lookups produced
    rs_pc,          \* "call", "return", "done", "raised"
    \* deep_assign
    m_target,       \* target
    m_source,       \* source
    m_result,       \* the returned value, None before the call
    m_pc,           \* "call", "done"
    \* main, batch mode
    files,          \* the discovered files, each with what rendering it does
    b_i,            \* index of the file the for loop is at
    attempts,       \* per file, the number of process_file calls
    failed,         \* the files whose failure was reported
    rendered,       \* the files whose image was written
    b_pc,           \* "start", "loop", "hung", "done"
    \* render, the paste of one block
    p_cell,         \* x, y, z of the block
    p_at,           \* px, py of the paste, None before it
    p_pc            \* "project", "pasted"

assetVars   == <<models, textures>>
renderVars  == <<reg, xyz, canvas, block_sprites, rpc, visits>>
spriteVars  == <<sp_model, sp_visible, sp_elem, sp_face, sp_ref, sp_sprite, sp_skipped, sp_pc>>
resolveVars == <<rs_name, rs_arg, rs_stack, rs_ret, rs_found, rs_pc>>
mergeVars   == <<m_target, m_source, m_result, m_pc>>
batchVars   == <<files, b_i, attempts, failed, rendered, b_pc>>

pasteVars   == <<p_cell, p_at, p_pc>>

vars == <<assetVars, renderVars, spriteVars, resolveVars, mergeVars, batchVars, pasteVars>>

-----------------------------------------------------------------------------
(* Bounds of the model.                                                    *)

\* Cells have coordinates 0 .. MaxCoord on each axis.
MaxCoord == 1

\* Texture variables of the models render_block_to_sprite is stepped on are
\* named "1" .. MaxTexVars; the models have up to MaxElements elements.
MaxTexVars == 2
MaxElements == 2

\* The asset stores parse_model is stepped on hold the parent models
\* block/p1 .. block/p<MaxChain>.
MaxChain == 2

\* Nesting depth of the definitions deep_assign is applied to.
MaxDepth == 2

\* Most scene files the input directory holds.
MaxFiles == 3

\* The block that is pasted has coordinates 0 .. MaxExtent on each axis.
MaxExtent == 34

\* Depth at which Python raises RecursionError (1000 in CPython; the model
\* uses a small limit larger than every acyclic parent chain it builds).
RecursionLimit == 6

-----------------------------------------------------------------------------
(* Python strings as token sequences.                                      *)

StartsWith(s, p) == Len(p) <= Len(s) /\ SubSeq(s, 1, Len(p)) = p

Contains(s, p) == \E i \in 1..(Len(s) - Len(p) + 1) : SubSeq(s, i, i + Len(p) - 1) = p

DropFirst(s, n) == SubSeq(s, n + 1, Len(s))

RECURSIVE Replace(_, _, _)
Replace(s, old, new) ==
    IF Len(s) < Len(old) \/ Len(old) = 0 THEN s
    ELSE IF SubSeq(s, 1, Len(old)) = old
         THEN new \o Replace(DropFirst(s, Len(old)), old, new)
         ELSE <<Head(s)>> \o Replace(Tail(s), old, new)

MC == <<"minecraft:">>

-----------------------------------------------------------------------------
(* JSON values.                                                            *)

Dict(f) == [t |-> "dict", v |-> f]
Str(s)  == [t |-> "str", v |-> s]
List(q) == [t |-> "list", v |-> q]
Num(n)  == [t |-> "num", v |-> n]
None    == [t |-> "none"]
Raised  == [t |-> "raise"]
EmptyDict == Dict([k \in {} |-> None])

IsDict(val) == val.t = "dict"

\* Python truthiness of a value: None, {}, [], "" and 0 are falsy.
Truthy(val) ==
    CASE val.t = "none" -> FALSE
      [] val.t = "dict" -> DOMAIN val.v # {}
      [] val.t = "list" -> Len(val.v) > 0
      [] val.t = "str"  -> Len(val.v) > 0
      [] val.t = "num"  -> val.v # 0
      [] OTHER -> TRUE

\* dict.get(key, default)
Get(d, key, default) == IF key \in DOMAIN d.v THEN d.v[key] ELSE default


-----------------------------------------------------------------------------
(* src/loader.py                                                           *)

\* BLOCK_MODEL_MAP: manual mapping for blocks without a direct model file.
BLOCK_MODEL_MAP ==
    [k \in {<<"redstone_wire">>, <<"wall_torch">>, <<"fire">>, <<"soul_fire">>,
            <<"water">>, <<"lava">>, <<"grass">>, <<"tall_grass">>} |->
        CASE k = <<"redstone_wire">> -> <<"block/", "redstone_dust_dot">>
          [] k = <<"wall_torch">>    -> <<"block/", "wall_torch">>
          [] k = <<"fire">>          -> <<"block/", "fire_floor0">>
          [] k = <<"soul_fire">>     -> <<"block/", "soul_fire_floor0">>
          [] k = <<"water">>         -> <<"block/", "water", "_still">>
          [] k = <<"lava">>          -> <<"block/", "lava", "_still">>
          [] k = <<"grass">>         -> <<"block/", "grass">>
          [] k = <<"tall_grass">>    -> <<"block/", "tall_grass_bottom">>]

\* The file get_model_file reads: models/<model_type>/<clean_name>.json.
ModelPath(block_name) ==
    LET name == Replace(block_name, MC, <<>>)
    IN  IF StartsWith(name, <<"item/">>) THEN <<"item", DropFirst(name, 1)>>
        ELSE IF StartsWith(name, <<"block/">>) THEN <<"block", DropFirst(name, 1)>>
        ELSE <<"block", name>>

\* get_model_file: the JSON found in the cache or fetched from the asset
\* server, None when the fetch fails.  The cache file it writes holds the
\* fetched JSON unchanged, so the cache and the server are one store.
GetModelFile(store, block_name) ==
    LET path == ModelPath(block_name)
    IN  IF path \in DOMAIN store THEN store[path] ELSE None

\* get_texture_image: the decoded image (here: its name), None when absent.
GetTextureImage(images, texture_name) ==
    LET clean_name == Replace(texture_name, MC, <<>>)
    IN  IF clean_name \in images THEN Str(clean_name) ELSE None

\* deep_assign(target, source): source is a dict.  target.setdefault and
\* target[key] = val raise on a target that is not a dict (AttributeError /
\* TypeError, both reported as Raised); with no key in source the loop body
\* never runs and target is returned whatever it is.
RECURSIVE DeepAssign(_, _)
\* deep_assign with target.get(key, {}) in place of target.setdefault(key, {}):
\* a nested dict of source whose key target lacks is merged into a dict that
\* is thrown away.
DeepAssignNoSetdefault(target, source) ==
    IF DOMAIN source.v = {} THEN target
    ELSE IF ~IsDict(target) THEN Raised
    ELSE LET kept == {key \in (DOMAIN target.v) \cup (DOMAIN source.v) :
                        key \in DOMAIN target.v \/ ~IsDict(source.v[key])}
             merged == [key \in kept |->
                 IF key \notin DOMAIN source.v THEN target.v[key]
                 ELSE IF IsDict(source.v[key])
                      THEN DeepAssign(target.v[key], source.v[key])
                      ELSE source.v[key]]
         IN  IF \E key \in DOMAIN merged : merged[key] = Raised
             THEN Raised ELSE Dict(merged)

DeepAssign(target, source) ==
    IF DOMAIN source.v = {} THEN target
    ELSE IF ~IsDict(target) THEN Raised
    ELSE LET merged == [key \in (DOMAIN target.v) \cup (DOMAIN source.v) |->
                 IF key \notin DOMAIN source.v THEN target.v[key]
                 ELSE IF IsDict(source.v[key])
                      THEN DeepAssign(Get(target, key, EmptyDict), source.v[key])
                      ELSE source.v[key]]
         IN  IF \E key \in DOMAIN merged : merged[key] = Raised
             THEN Raised ELSE Dict(merged)

\* The built-in fallback models of parse_model.
Face6(ref) == Dict([f \in {"up", "north", "east", "south", "west", "down"} |->
                      Dict([k \in {"texture"} |-> Str(ref)])])

Cuboid(from, to, ref) ==
    Dict([k \in {"from", "to", "faces"} |->
            CASE k = "from" -> List([i \in 1..3 |-> Num(from[i])])
              [] k = "to"   -> List([i \in 1..3 |-> Num(to[i])])
              [] k = "faces" -> Face6(ref)])

FallbackModel(from, to, texture) ==
    Dict([k \in {"elements", "textures"} |->
            CASE k = "elements" -> List(<<Cuboid(from, to, <<"#", "all">>)>>)
              [] k = "textures" -> Dict([a \in {"all"} |-> Str(texture)])])

FluidFallback(block_name) ==
    FallbackModel(<<0, 0, 0>>, <<16, 16, 16>>,
                  IF block_name = <<"minecraft:", "water">>
                  THEN <<"block/", "water", "_still">>
                  ELSE <<"block/", "lava", "_still">>)

SignFallback(block_name) ==
    LET wood_type == Replace(Replace(Replace(block_name, MC, <<>>),
                                     <<"_wall", "_sign">>, <<>>),
                             <<"_sign">>, <<>>)
    IN  FallbackModel(<<0, 4, 0>>, <<16, 12, 2>>,
                      <<"block/">> \o wood_type \o <<"_planks">>)

\* The first lookup of parse_model: the manually mapped model when the name
\* without its namespace is in BLOCK_MODEL_MAP, else the model of the name.
FirstLookup(store, block_name) ==
    IF Replace(block_name, MC, <<>>) \in DOMAIN BLOCK_MODEL_MAP
    THEN GetModelFile(store, BLOCK_MODEL_MAP[Replace(block_name, MC, <<>>)])
    ELSE GetModelFile(store, block_name)

\* The second lookup, made when the first gave nothing: item/<clean_name>,
\* unless block_name starts with "item/".
ItemLookup(store, block_name) ==
    IF StartsWith(block_name, <<"item/">>) THEN None
    ELSE GetModelFile(store, <<"item/">> \o Replace(Replace(block_name, MC, <<>>),
                                                    <<"block/">>, <<>>))

\* The choice parse_model makes among the two lookups, the built-in
\* fallbacks and {}; strategy names the step that produced model_data.
ChooseModel(block_name, first, second) ==
    IF Truthy(first) THEN [strategy |-> "block", model_data |-> first]
    ELSE IF Truthy(second) THEN [strategy |-> "item", model_data |-> second]
    ELSE IF block_name \in {<<"minecraft:", "water">>, <<"minecraft:", "lava">>}
         THEN [strategy |-> "fluid", model_data |-> FluidFallback(block_name)]
    ELSE IF Contains(block_name, <<"_sign">>)
         THEN [strategy |-> "sign", model_data |-> SignFallback(block_name)]
    ELSE [strategy |-> "none", model_data |-> EmptyDict]

\* parse_model up to the parent step.
LookupModel(store, block_name) ==
    ChooseModel(block_name, FirstLookup(store, block_name), ItemLookup(store, block_name))

\* Whether parse_model goes on to resolve a parent: the built-in fallbacks
\* and {} return at once, a model found in the store is tested for 'parent'.
HasParent(found) ==
    /\ found.strategy \in {"block", "item"}
    /\ IsDict(found.model_data)
    /\ "parent" \in DOMAIN found.model_data.v

\* model_data = deep_assign(parent_model, model_data); an exception raised
\* while resolving the parent passes through.
MergeOver(parent_model, model_data) ==
    IF parent_model = Raised THEN Raised ELSE DeepAssign(parent_model, model_data)

\* parse_model(block_name) called at recursion depth `depth`: the model
\* merged over its parents, or Raised when the recursion limit is reached
\* or deep_assign raises.
RECURSIVE ParseModel(_, _, _)
ParseFound(store, found, depth) ==
    IF HasParent(found)
    THEN MergeOver(ParseModel(store, found.model_data.v["parent"].v, depth + 1),
                   found.model_data)
    ELSE found.model_data

ParseModel(store, block_name, depth) ==
    IF depth > RecursionLimit THEN Raised
    ELSE ParseFound(store, LookupModel(store, block_name), depth)

-----------------------------------------------------------------------------
(* src/renderer.py: face culling                                           *)

transparent_keywords ==
    {"glass", "ice", "water", "lava", "slime", "honey", "leaves", "beacon",
     "scaffolding", "spawner"}

is_transparent(block_id) == \E keyword \in transparent_keywords : Contains(block_id, <<keyword>>)

AIR == <<"minecraft:", "air">>

\* Region bounds: reg.min_x() .. reg.max_x() and so on.
min_x == 0
min_y == 0
min_z == 0
max_x == MaxCoord
max_y == MaxCoord
max_z == MaxCoord

Cells == (min_x..max_x) \X (min_y..max_y) \X (min_z..max_z)

\* The neighbour probed for a face, <<x, y, z>> one step along the axis.
Neighbor(c, face) ==
    CASE face = "east"  -> <<c[1] + 1, c[2], c[3]>>
      [] face = "south" -> <<c[1], c[2], c[3] + 1>>
      [] face = "up"    -> <<c[1], c[2] + 1, c[3]>>

\* The bounds test guarding each probe: x + 1 <= max_x, z + 1 <= max_z,
\* y + 1 <= max_y.
InBounds(c, face) ==
    CASE face = "east"  -> c[1] + 1 <= max_x
      [] face = "south" -> c[3] + 1 <= max_z
      [] face = "up"    -> c[2] + 1 <= max_y

\* FaceRemoved with the opaque branch culling against every non-air
\* neighbour (the test of the neighbour's transparency dropped).
FaceRemovedOpaqueAlways(grid, c, face) ==
    /\ InBounds(c, face)
    /\ LET block == grid[c]
           neighbor == grid[Neighbor(c, face)]
       IN  /\ neighbor # AIR
           /\ IF is_transparent(block)
              THEN neighbor = block
              ELSE TRUE

\* FaceRemoved with the transparent branch culling against every
\* transparent neighbour instead of the identical identifier only.
FaceRemovedAnyTransparent(grid, c, face) ==
    /\ InBounds(c, face)
    /\ LET block == grid[c]
           neighbor == grid[Neighbor(c, face)]
       IN  /\ neighbor # AIR
           /\ IF is_transparent(block)
              THEN is_transparent(neighbor)
              ELSE ~is_transparent(neighbor)

\* Whether the culling block of render() removes `face` from visible_faces.
FaceRemoved(grid, c, face) ==
    /\ InBounds(c, face)
    /\ LET block == grid[c]
           neighbor == grid[Neighbor(c, face)]
       IN  /\ neighbor # AIR
           /\ IF is_transparent(block)
              THEN neighbor = block
              ELSE ~is_transparent(neighbor)

\* visible_faces after the three culling checks.
VisibleFaces(grid, c) ==
    LET Kept(face) == ~FaceRemoved(grid, c, face)
    IN  SelectSeq(<<"east", "south", "up">>, Kept)

-----------------------------------------------------------------------------
(* src/renderer.py: render_block_to_sprite                                 *)

render_order == <<"east", "south", "up">>

\* sorted(visible_faces): Python orders the face names alphabetically.
Sorted(faces) ==
    LET In(f) == \E i \in 1..Len(faces) : faces[i] = f
    IN  SelectSeq(<<"down", "east", "north", "south", "up", "west">>, In)

\* The while loop resolving a texture variable.  A reference met twice is a
\* cycle: the loop never ends, status "hang".  Otherwise the reference the
\* loop ends with: a literal, or one still starting with '#' after the break.
RECURSIVE ResolveTexture(_, _, _)
ResolveTexture(model, texture_ref, seen) ==
    IF ~StartsWith(texture_ref, <<"#">>) THEN [status |-> "ok", ref |-> texture_ref]
    ELSE IF texture_ref \in seen THEN [status |-> "hang", ref |-> texture_ref]
    ELSE LET variables == Get(model, "textures", EmptyDict)
             name == DropFirst(texture_ref, 1)
             resolved == IF Len(name) = 1 THEN Get(variables, name[1], None) ELSE None
         IN  IF ~Truthy(resolved) THEN [status |-> "ok", ref |-> texture_ref]
             ELSE ResolveTexture(model, resolved.v, seen \cup {texture_ref})

\* draw_textured_face returns without pasting when the projected quad is
\* degenerate: one of the two edges of the face has no extent.
Degenerate(from, to, face_name) ==
    LET dx == to[1].v - from[1].v
        dy == to[2].v - from[2].v
        dz == to[3].v - from[3].v
    IN  CASE face_name = "east"  -> dz = 0 \/ dy = 0
          [] face_name = "south" -> dx = 0 \/ dy = 0
          [] face_name = "up"    -> dx = 0 \/ dz = 0

\* Two consecutive runs of loop iterations: the first to go wrong decides.
Then(first, second) ==
    IF first.status # "ok" THEN first
    ELSE IF second.status # "ok" THEN second
    ELSE [status |-> "ok", drawn |-> first.drawn \o second.drawn]

\* The body of the face loop for one face of one element: the face pasted
\* onto the sprite, if any.
DrawFace(model, images, element, e, visible_faces, face_name) ==
    LET faces == Get(element, "faces", EmptyDict)
        face_data == faces.v[face_name]
        res == ResolveTexture(model, Get(face_data, "texture", Str(<<>>)).v, {})
        texture_img == GetTextureImage(images, res.ref)
        skip == [status |-> "ok", drawn |-> <<>>]
    IN  IF face_name \notin DOMAIN faces.v THEN skip
        ELSE IF ~(\E j \in 1..Len(visible_faces) : visible_faces[j] = face_name) THEN skip
        ELSE IF res.status = "hang" THEN [status |-> "hang", drawn |-> <<>>]
        ELSE IF StartsWith(res.ref, <<"#">>) THEN skip
        ELSE IF ~Truthy(texture_img) THEN skip
        ELSE IF Degenerate(element.v["from"].v, element.v["to"].v, face_name) THEN skip
        ELSE [status |-> "ok",
              drawn |-> <<[element |-> e, face |-> face_name,
                           texture |-> texture_img.v,
                           tinted |-> "tintindex" \in DOMAIN face_data.v]>>]

\* The face loop of one element from position i of render_order on.
RECURSIVE DrawFaces(_, _, _, _, _, _)
DrawFaces(model, images, element, e, visible_faces, i) ==
    IF i > Len(render_order) THEN [status |-> "ok", drawn |-> <<>>]
    ELSE Then(DrawFace(model, images, element, e, visible_faces, render_order[i]),
              DrawFaces(model, images, element, e, visible_faces, i + 1))

\* The element loop from element e on.  element['from'] raises KeyError
\* when the element has no from / to.
RECURSIVE DrawElements(_, _, _, _, _)
DrawElements(model, images, elements, e, visible_faces) ==
    IF e > Len(elements) THEN [status |-> "ok", drawn |-> <<>>]
    ELSE IF ~({"from", "to"} \subseteq DOMAIN elements[e].v) THEN [status |-> "raise", drawn |-> <<>>]
    ELSE Then(DrawFaces(model, images, elements[e], e, visible_faces, 1),
              DrawElements(model, images, elements, e + 1, visible_faces))

CacheKey(block_name, visible_faces) == <<block_name, Sorted(visible_faces)>>

\* The cache after self.block_sprites[cache_key] = sprite.
CachePut(cache, cache_key, sprite) ==
    [k \in DOMAIN cache \cup {cache_key} |-> IF k = cache_key THEN sprite ELSE cache[k]]

\* The end of render_block_to_sprite, after the element loop gave res.
FinishSprite(cache, cache_key, res) ==
    IF res.status # "ok" THEN [status |-> res.status, sprite |-> None, cache |-> cache]
    ELSE [status |-> "rendered", sprite |-> [faces |-> res.drawn],
          cache |-> CachePut(cache, cache_key, [faces |-> res.drawn])]

\* render_block_to_sprite from "if not model" on, without that test.
SpriteOfModelNoEmptyTest(images, cache, cache_key, visible_faces, model) ==
    IF model = Raised THEN [status |-> "raise", sprite |-> None, cache |-> cache]
    ELSE FinishSprite(cache, cache_key,
                      DrawElements(model, images, Get(model, "elements", List(<<>>)).v,
                                   1, visible_faces))

\* render_block_to_sprite from "if not model" on, for the value parse_model
\* gave (Raised: its exception leaves the method).
SpriteOfModel(images, cache, cache_key, visible_faces, model) ==
    IF model = Raised THEN [status |-> "raise", sprite |-> None, cache |-> cache]
    ELSE IF ~Truthy(model) THEN [status |-> "none", sprite |-> None, cache |-> cache]
    ELSE FinishSprite(cache, cache_key,
                      DrawElements(model, images, Get(model, "elements", List(<<>>)).v,
                                   1, visible_faces))

\* render_block_to_sprite: status "cached" / "rendered" with the sprite and
\* the cache afterwards, "none" for the None result, "raise" when an
\* exception leaves the method, "hang" when it never returns.
RenderBlockToSprite(store, images, cache, block_name, visible_faces) ==
    IF CacheKey(block_name, visible_faces) \in DOMAIN cache
    THEN [status |-> "cached", sprite |-> cache[CacheKey(block_name, visible_faces)],
          cache |-> cache]
    ELSE SpriteOfModel(images, cache, CacheKey(block_name, visible_faces), visible_faces,
                       ParseModel(store, block_name, 1))

-----------------------------------------------------------------------------
(* Each specification below runs one part of the program; the variables of *)
(* the other parts keep these values.                                      *)

IdleRender ==
    /\ reg = <<>> /\ xyz = <<>> /\ canvas = <<>> /\ block_sprites = <<>>
    /\ rpc = "idle" /\ visits = <<>>

IdleSprite ==
    /\ sp_model = None /\ sp_visible = <<>> /\ sp_elem = 0 /\ sp_face = 0
    /\ sp_ref = <<>> /\ sp_sprite = <<>> /\ sp_skipped = <<>> /\ sp_pc = "idle"

IdleResolve ==
    /\ rs_name = <<>> /\ rs_arg = <<>> /\ rs_stack = <<>> /\ rs_ret = None
    /\ rs_found = None /\ rs_pc = "idle"

IdleMerge ==
    /\ m_target = None /\ m_source = None /\ m_result = None /\ m_pc = "idle"

IdleBatch ==
    /\ files = <<>> /\ b_i = 0 /\ attempts = <<>> /\ failed = {} /\ rendered = {}
    /\ b_pc = "idle"

IdlePaste == p_cell = <<>> /\ p_at = None /\ p_pc = "idle"

-----------------------------------------------------------------------------
(* The asset pack and the regions the render pass is checked on.           *)

DIRT     == <<"minecraft:", "dirt">>
GLASS    == <<"minecraft:", "glass">>
BLUE_ICE == <<"minecraft:", "blue_", "ice">>
MYSTERY  == <<"minecraft:", "mystery">>   \* no model, no mapping, no fallback

BlockIds == {DIRT, GLASS, BLUE_ICE, MYSTERY}

\* block/cube, block/cube_all and three blocks using them, as in the 1.19.4
\* assets: a cube model { "parent": "minecraft:block/cube_all", "textures":
\* { "all": "minecraft:block/<name>" } }.
CubeModel ==
    Dict([k \in {"elements"} |->
            List(<<Dict([j \in {"from", "to", "faces"} |->
                     CASE j = "from" -> List(<<Num(0), Num(0), Num(0)>>)
                       [] j = "to" -> List(<<Num(16), Num(16), Num(16)>>)
                       [] j = "faces" ->
                            Dict([f \in {"up", "north", "east", "south", "west", "down"} |->
                                    Dict([a \in {"texture"} |-> Str(<<"#", f>>)])])])>>)])

CubeAllModel ==
    Dict([k \in {"parent", "textures"} |->
            CASE k = "parent" -> Str(<<"block/", "cube">>)
              [] k = "textures" ->
                   Dict([f \in {"particle", "up", "north", "east", "south", "west", "down"} |->
                           Str(<<"#", "all">>)])])

BlockModel(name) ==
    Dict([k \in {"parent", "textures"} |->
            CASE k = "parent" -> Str(<<"minecraft:", "block/", "cube_all">>)
              [] k = "textures" ->
                   Dict([a \in {"all"} |-> Str(<<"minecraft:", "block/">> \o name)])])

AssetPack ==
    [path \in {<<"block", <<"cube">>>>, <<"block", <<"cube_all">>>>,
               <<"block", <<"dirt">>>>, <<"block", <<"glass">>>>,
               <<"block", <<"blue_", "ice">>>>} |->
        CASE path[2] = <<"cube">> -> CubeModel
          [] path[2] = <<"cube_all">> -> CubeAllModel
          [] OTHER -> BlockModel(path[2])]

PackTextures == {<<"block/", "dirt">>, <<"block/", "glass">>, <<"block/", "blue_", "ice">>}

\* A region holding one block and its east, south and up neighbours, each
\* drawn freely; every other cell holds air.
ClusterRegions ==
    {[c \in Cells |->
        IF c = p THEN b
        ELSE IF c = Neighbor(p, "east") THEN n[1]
        ELSE IF c = Neighbor(p, "south") THEN n[2]
        ELSE IF c = Neighbor(p, "up") THEN n[3]
        ELSE AIR] :
        p \in Cells, b \in BlockIds,
        n \in (BlockIds \cup {AIR}) \X (BlockIds \cup {AIR}) \X (BlockIds \cup {AIR})}

-----------------------------------------------------------------------------
(* src/renderer.py: render                                                 *)

\* NextCell with the loops nested as for y: for x: for z (z innermost).
NextCellZInnermost(c) ==
    IF c[3] < max_z THEN <<c[1], c[2], c[3] + 1>>
    ELSE IF c[1] < max_x THEN <<c[1] + 1, c[2], min_z>>
    ELSE <<min_x, c[2] + 1, min_z>>

\* The next values of the loop variables of
\*   for y in ..: for z in ..: for x in ..:
\* and whether the loops are exhausted.
NextCell(c) ==
    IF c[1] < max_x THEN <<c[1] + 1, c[2], c[3]>>
    ELSE IF c[3] < max_z THEN <<min_x, c[2], c[3] + 1>>
    ELSE <<min_x, c[2] + 1, min_z>>

LastCell(c) == c = <<max_x, max_y, max_z>>

InitAssets ==
    /\ models = AssetPack
    /\ textures = PackTextures

InitRender ==
    /\ reg \in ClusterRegions
    /\ xyz = <<min_x, min_y, min_z>>
    /\ canvas = <<>>
    /\ block_sprites = [k \in {} |-> None]
    /\ rpc = "sweep"
    /\ visits = <<>>

\* One execution of the body of the innermost loop, for the block at xyz:
\* the air test, face culling, render_block_to_sprite and the paste; an
\* exception is caught by the except clause of the body.
VisitBlock ==
    /\ rpc = "sweep"
    /\ \E block \in {reg[xyz]} :
       \E visible_faces \in {VisibleFaces(reg, xyz)} :
       \E res \in {RenderBlockToSprite(models, textures, block_sprites, block, visible_faces)} :
       \E outcome \in {IF block = AIR THEN "air" ELSE res.status} :
           /\ visits' = Append(visits, [cell |-> xyz, block |-> block,
                                        visible_faces |-> IF block = AIR THEN <<>> ELSE visible_faces,
                                        outcome |-> outcome])
           /\ canvas' = IF outcome \in {"cached", "rendered"}
                        THEN Append(canvas, [cell |-> xyz, block |-> block, sprite |-> res.sprite])
                        ELSE canvas
           /\ block_sprites' = IF block = AIR THEN block_sprites ELSE res.cache
           /\ IF outcome = "hang" THEN rpc' = "hung" /\ xyz' = xyz
              ELSE IF LastCell(xyz) THEN rpc' = "swept" /\ xyz' = xyz
              ELSE rpc' = "sweep" /\ xyz' = NextCell(xyz)
    /\ UNCHANGED <<reg, assetVars, spriteVars, resolveVars, mergeVars, batchVars, pasteVars>>

\* After the loops: crop the canvas to its content and save it.
SaveImage ==
    /\ rpc = "swept"
    /\ rpc' = "saved"
    /\ UNCHANGED <<reg, xyz, canvas, block_sprites, visits>>
    /\ UNCHANGED <<assetVars, spriteVars, resolveVars, mergeVars, batchVars, pasteVars>>

Init == InitAssets /\ InitRender /\ IdleSprite /\ IdleResolve /\ IdleMerge /\ IdleBatch /\ IdlePaste

Next == VisitBlock \/ SaveImage

Spec == Init /\ [][Next]_vars

-----------------------------------------------------------------------------
(* src/renderer.py: render_block_to_sprite, one loop iteration at a time   *)
(* (specifications SpecSprite and FairSpecSprite).                         *)

TexVar(i) == <<"#", ToString(i)>>
LIT == <<"block/", "dirt">>

\* The textures mappings: each variable i is absent, a literal path, the
\* empty string, or a reference to the next variable (the last one refers
\* to the first).
TextureMaps ==
    {Dict([k \in {ToString(i) : i \in {j \in 1..MaxTexVars : ch[j] # "absent"}} |->
             LET i == CHOOSE j \in 1..MaxTexVars : ToString(j) = k
             IN  CASE ch[i] = "lit"   -> Str(LIT)
                   [] ch[i] = "empty" -> Str(<<>>)
                   [] ch[i] = "next"  -> Str(TexVar((i % MaxTexVars) + 1))]) :
        ch \in [1..MaxTexVars -> {"absent", "lit", "empty", "next"}]}

\* The faces of an element: each of east, south, up is absent (0) or uses
\* texture variable fa[face].
FaceMaps ==
    {Dict([f \in {g \in {"east", "south", "up"} : fa[g] # 0} |->
             Dict([a \in {"texture"} |-> Str(TexVar(fa[f]))])]) :
        fa \in [{"east", "south", "up"} -> 0..MaxTexVars]}

UnitElement(faces) ==
    Dict([j \in {"from", "to", "faces"} |->
            CASE j = "from" -> List(<<Num(0), Num(0), Num(0)>>)
              [] j = "to" -> List(<<Num(16), Num(16), Num(16)>>)
              [] j = "faces" -> faces])

\* Merged models: a textures mapping and n copies of one element.
SpriteModels ==
    {Dict([k \in {"textures", "elements"} |->
             IF k = "textures" THEN tm
             ELSE List([e \in 1..n |-> UnitElement(fm)])]) :
        tm \in TextureMaps, fm \in FaceMaps, n \in 1..MaxElements}

InitSprite ==
    /\ sp_model \in SpriteModels
    /\ sp_visible \in {<<"east", "south", "up">>, <<"east", "up">>}
    /\ sp_elem = 1
    /\ sp_face = 1
    /\ sp_ref = <<>>
    /\ sp_sprite = <<>>
    /\ sp_skipped = <<>>
    /\ sp_pc = "face"

\* The end of one iteration of the face loop: on to the next face, the next
\* element, or out of both loops.
AdvanceFace ==
    IF sp_face < Len(render_order)
    THEN sp_face' = sp_face + 1 /\ sp_elem' = sp_elem /\ sp_pc' = "face"
    ELSE IF sp_elem < Len(sp_model.v["elements"].v)
    THEN sp_face' = 1 /\ sp_elem' = sp_elem + 1 /\ sp_pc' = "face"
    ELSE sp_face' = sp_face /\ sp_elem' = sp_elem /\ sp_pc' = "store"

SpriteFrame == UNCHANGED <<assetVars, reg, xyz, canvas, rpc, visits, resolveVars, mergeVars, batchVars, pasteVars>>

\* The head of the face loop body: the two continue tests and the read of
\* the face's texture reference.
BeginFace ==
    /\ sp_pc = "face"
    /\ \E face_name \in {render_order[sp_face]} :
       \E faces \in {Get(sp_model.v["elements"].v[sp_elem], "faces", EmptyDict)} :
          IF face_name \notin DOMAIN faces.v
             \/ ~(\E j \in 1..Len(sp_visible) : sp_visible[j] = face_name)
          THEN /\ AdvanceFace
               /\ UNCHANGED <<sp_ref, sp_sprite, sp_skipped>>
          ELSE /\ sp_ref' = Get(faces.v[face_name], "texture", Str(<<>>)).v
               /\ sp_pc' = "while"
               /\ UNCHANGED <<sp_elem, sp_face, sp_sprite, sp_skipped>>
    /\ UNCHANGED <<sp_model, sp_visible, block_sprites>>
    /\ SpriteFrame

\* One iteration of "while texture_ref.startswith('#')": the lookup, and
\* the break when it gives nothing.
WhileStep ==
    /\ sp_pc = "while"
    /\ StartsWith(sp_ref, <<"#">>)
    /\ \E name \in {DropFirst(sp_ref, 1)} :
       \E resolved \in {IF Len(name) = 1
                        THEN Get(Get(sp_model, "textures", EmptyDict), name[1], None)
                        ELSE None} :
          IF ~Truthy(resolved)
          THEN sp_pc' = "after" /\ sp_ref' = sp_ref
          ELSE sp_pc' = "while" /\ sp_ref' = resolved.v
    /\ UNCHANGED <<sp_model, sp_visible, sp_elem, sp_face, sp_sprite, sp_skipped, block_sprites>>
    /\ SpriteFrame

\* The rest of the face loop body, reached when the while condition is
\* false or after the break: the face is skipped when the reference still
\* starts with '#', when the texture has no image or when the quad is
\* degenerate, and pasted onto the sprite otherwise.
EndFace ==
    /\ sp_pc = "after" \/ (sp_pc = "while" /\ ~StartsWith(sp_ref, <<"#">>))
    /\ \E face_name \in {render_order[sp_face]} :
       \E element \in {sp_model.v["elements"].v[sp_elem]} :
       \E texture_img \in {GetTextureImage(textures, sp_ref)} :
       \E why \in {IF StartsWith(sp_ref, <<"#">>) THEN "unresolved"
                   ELSE IF ~Truthy(texture_img) THEN "no image"
                   ELSE IF Degenerate(element.v["from"].v, element.v["to"].v, face_name)
                        THEN "degenerate"
                   ELSE "drawn"} :
          /\ sp_sprite' = IF why = "drawn"
                          THEN Append(sp_sprite,
                                      [element |-> sp_elem, face |-> face_name,
                                       texture |-> texture_img.v,
                                       tinted |-> "tintindex" \in DOMAIN element.v["faces"].v[face_name].v])
                          ELSE sp_sprite
          /\ sp_skipped' = IF why = "drawn" THEN sp_skipped
                           ELSE Append(sp_skipped, [element |-> sp_elem, face |-> face_name, why |-> why])
    /\ AdvanceFace
    /\ UNCHANGED <<sp_model, sp_visible, sp_ref, block_sprites>>
    /\ SpriteFrame

\* The block whose sprite is rendered.
SpriteBlock == <<"minecraft:", "dirt">>

\* self.block_sprites[cache_key] = sprite; return sprite
StoreSprite ==
    /\ sp_pc = "store"
    /\ sp_pc' = "done"
    /\ block_sprites' = CachePut(block_sprites, CacheKey(SpriteBlock, sp_visible),
                                 [faces |-> sp_sprite])
    /\ UNCHANGED <<sp_model, sp_visible, sp_elem, sp_face, sp_ref, sp_sprite, sp_skipped>>
    /\ SpriteFrame

NextSprite == BeginFace \/ WhileStep \/ EndFace \/ StoreSprite

InitSpriteSpec ==
    /\ InitAssets /\ InitSprite /\ IdleResolve /\ IdleMerge /\ IdleBatch /\ IdlePaste
    /\ reg = <<>> /\ xyz = <<>> /\ canvas = <<>> /\ rpc = "idle" /\ visits = <<>>
    /\ block_sprites = [k \in {} |-> None]

SpecSprite == InitSpriteSpec /\ [][NextSprite]_vars

\* The method runs on one thread and never waits: it takes its next step
\* whenever it has one.
FairSpecSprite == SpecSprite /\ WF_vars(NextSprite)

-----------------------------------------------------------------------------
(* src/loader.py: parse_model, one call and one return at a time           *)
(* (specification SpecResolve).                                            *)

\* A model of the store: its own "all" texture, and a parent when par > 0.
StoredModel(own, par) ==
    Dict([k \in {"textures"} \cup (IF par > 0 THEN {"parent"} ELSE {}) |->
            IF k = "parent" THEN Str(<<"block/", "p", ToString(par)>>)
            ELSE Dict([a \in {"all"} |-> Str(<<"block/">> \o own)])])

ChainPath(i) == <<"block", <<"p", ToString(i)>>>>

\* The parent models block/p1 .. block/p<MaxChain>, each with no parent
\* (0) or any of them as its parent.
ChainStores ==
    {[path \in {ChainPath(i) : i \in 1..MaxChain} |->
        LET i == CHOOSE j \in 1..MaxChain : ChainPath(j) = path
        IN  StoredModel(<<"p", ToString(i)>>, par[i])] :
        par \in [1..MaxChain -> 0..MaxChain]}

\* The names parse_model is called with, each with the model files the
\* asset server may or may not have for it.
ResolveCases ==
    LET water == {<<"block", <<"water", "_still">>>>, <<"item", <<"water">>>>, <<"block", <<"water">>>>}
        lava  == {<<"block", <<"lava", "_still">>>>, <<"item", <<"lava">>>>}
        sign  == {<<"block", <<"oak", "_sign">>>>, <<"item", <<"oak", "_sign">>>>}
        wsign == {<<"block", <<"oak", "_wall", "_sign">>>>, <<"item", <<"oak", "_wall", "_sign">>>>}
        dirt  == {<<"block", <<"dirt">>>>, <<"item", <<"dirt">>>>}
        wire  == {<<"block", <<"redstone_dust_dot">>>>, <<"item", <<"redstone_wire">>>>,
                  <<"block", <<"redstone_wire">>>>}
    IN  {[name |-> <<"minecraft:", "water">>, paths |-> water],
         [name |-> <<"water">>, paths |-> water],
         [name |-> <<"minecraft:", "lava">>, paths |-> lava],
         [name |-> <<"lava">>, paths |-> lava],
         [name |-> <<"minecraft:", "oak", "_sign">>, paths |-> sign],
         [name |-> <<"minecraft:", "oak", "_wall", "_sign">>, paths |-> wsign],
         [name |-> <<"minecraft:", "dirt">>, paths |-> dirt],
         [name |-> <<"block/", "dirt">>, paths |-> dirt],
         [name |-> <<"minecraft:", "block/", "dirt">>, paths |-> dirt],
         [name |-> <<"item/", "dirt">>, paths |-> dirt],
         [name |-> <<"minecraft:", "redstone_wire">>, paths |-> wire],
         [name |-> <<"minecraft:", "mystery">>, paths |-> dirt]}

\* The store: the chain models, and the models present for the case, which
\* all have the same parent (0: none).
CaseStore(chain, present, par) ==
    [path \in DOMAIN chain \cup present |->
        IF path \in present THEN StoredModel(<<path[1]>> \o path[2], par) ELSE chain[path]]

InitResolve ==
    \E case \in ResolveCases, chain \in ChainStores, par \in 0..MaxChain :
    \E present \in SUBSET case.paths :
        /\ models = CaseStore(chain, present, par)
        /\ rs_name = case.name
        /\ rs_arg = case.name
        /\ rs_stack = <<>>
        /\ rs_ret = None
        /\ rs_found = None
        /\ rs_pc = "call"

ResolveFrame == UNCHANGED <<models, textures, renderVars, spriteVars, mergeVars, batchVars, pasteVars>>

\* Entering parse_model(rs_arg): RecursionError at the recursion limit (it
\* passes through every waiting call); else the lookups, then either the
\* recursive call for the parent or the return of model_data.
Call ==
    /\ rs_pc = "call"
    /\ IF Len(rs_stack) + 1 > RecursionLimit
       THEN /\ rs_pc' = "raised"
            /\ rs_ret' = Raised
            /\ rs_stack' = <<>>
            /\ UNCHANGED <<rs_arg, rs_found>>
       ELSE \E found \in {LookupModel(models, rs_arg)} :
               /\ rs_found' = IF rs_stack = <<>> THEN found ELSE rs_found
               /\ IF HasParent(found)
                  THEN /\ rs_stack' = Append(rs_stack, found.model_data)
                       /\ rs_arg' = found.model_data.v["parent"].v
                       /\ UNCHANGED <<rs_ret, rs_pc>>
                  ELSE /\ rs_ret' = found.model_data
                       /\ rs_pc' = "return"
                       /\ UNCHANGED <<rs_stack, rs_arg>>
    /\ UNCHANGED rs_name
    /\ ResolveFrame

\* A call returns rs_ret: to the waiting call, which merges its model_data
\* over it with deep_assign, or to the caller of the outermost call.
Return ==
    /\ rs_pc = "return"
    /\ IF rs_stack = <<>>
       THEN rs_pc' = "done" /\ UNCHANGED <<rs_ret, rs_stack>>
       ELSE \E merged \in {DeepAssign(rs_ret, rs_stack[Len(rs_stack)])} :
               /\ rs_ret' = merged
               /\ rs_stack' = IF merged = Raised THEN <<>> ELSE SubSeq(rs_stack, 1, Len(rs_stack) - 1)
               /\ rs_pc' = IF merged = Raised THEN "raised" ELSE "return"
    /\ UNCHANGED <<rs_name, rs_arg, rs_found>>
    /\ ResolveFrame

NextResolve == Call \/ Return

InitResolveSpec ==
    /\ InitResolve /\ textures = {} /\ IdleRender /\ IdleSprite /\ IdleMerge /\ IdleBatch /\ IdlePaste

SpecResolve == InitResolveSpec /\ [][NextResolve]_vars

-----------------------------------------------------------------------------
(* src/loader.py: deep_assign on a parent and a child definition           *)
(* (specification SpecMerge).                                              *)

\* The values of a JSON model: scalars, a list, the empty mapping, and
\* mappings of the key "c" nested to the given depth.
Leaves == {Str(<<"x">>), Str(<<"y">>), List(<<Str(<<"x">>)>>), EmptyDict}

RECURSIVE Values(_)
Values(depth) ==
    IF depth = 0 THEN Leaves
    ELSE Leaves \cup {Dict([k \in {"c"} |-> val]) : val \in Values(depth - 1)}

\* The definitions: mappings of any of the keys "a" and "b".
Definitions ==
    {Dict(d) : d \in UNION {[keys -> Values(MaxDepth - 1)] : keys \in SUBSET {"a", "b"}}}

InitMerge ==
    /\ m_target \in Definitions
    /\ m_source \in Definitions
    /\ m_result = None
    /\ m_pc = "call"

\* model_data = deep_assign(parent_model, model_data)
Merge ==
    /\ m_pc = "call"
    /\ m_result' = DeepAssign(m_target, m_source)
    /\ m_pc' = "done"
    /\ UNCHANGED <<m_target, m_source>>
    /\ UNCHANGED <<assetVars, renderVars, spriteVars, resolveVars, batchVars, pasteVars>>

NextMerge == Merge

InitMergeSpec ==
    /\ InitMerge /\ models = <<>> /\ textures = {}
    /\ IdleRender /\ IdleSprite /\ IdleResolve /\ IdleBatch /\ IdlePaste

SpecMerge == InitMergeSpec /\ [][NextMerge]_vars

-----------------------------------------------------------------------------
(* src/main.py: batch mode (specification SpecBatch).                      *)

\* What becomes of a scene file inside process_file: it is rendered, the
\* LitematicRenderer constructor raises, render raises, or render does not
\* return.
Fates == {"ok", "load_raises", "render_raises", "hangs"}

RECURSIVE FileLists(_)
FileLists(n) ==
    IF n = 0 THEN {<<>>}
    ELSE FileLists(n - 1) \cup
         {Append(list, fate) : list \in {l \in FileLists(n - 1) : Len(l) = n - 1},
                               fate \in Fates}

\* main() called with a directory: files is what glob.glob returned, a
\* list of distinct paths (a file is its index in the list).
InitBatch ==
    /\ files \in FileLists(MaxFiles)
    /\ b_i = 0
    /\ attempts = [i \in 1..Len(files) |-> 0]
    /\ failed = {}
    /\ rendered = {}
    /\ b_pc = "start"

BatchFrame == UNCHANGED <<assetVars, renderVars, spriteVars, resolveVars, mergeVars, pasteVars>>

\* Up to the for loop: with no file main returns; else the res directory
\* is made and the loop entered.
Start ==
    /\ b_pc = "start"
    /\ IF files = <<>>
       THEN b_pc' = "done" /\ UNCHANGED b_i
       ELSE b_pc' = "loop" /\ b_i' = 1
    /\ UNCHANGED <<files, attempts, failed, rendered>>
    /\ BatchFrame

\* One pass of the loop with the exception let through by process_file:
\* the traceback ends main.
ProcessFileNoCatch ==
    /\ b_pc = "loop"
    /\ attempts' = [attempts EXCEPT ![b_i] = @ + 1]
    /\ rendered' = IF files[b_i] = "ok" THEN rendered \cup {b_i} ELSE rendered
    /\ UNCHANGED failed
    /\ IF files[b_i] = "hangs" THEN b_pc' = "hung" /\ UNCHANGED b_i
       ELSE IF files[b_i] # "ok" \/ b_i = Len(files) THEN b_pc' = "done" /\ UNCHANGED b_i
       ELSE b_i' = b_i + 1 /\ UNCHANGED b_pc
    /\ UNCHANGED files
    /\ BatchFrame

\* One pass of the loop: process_file(file_path, output_path).  An
\* exception of the constructor or of render is caught and reported, and
\* the loop goes to the next file; a render that does not return keeps the
\* loop where it is.
ProcessFile ==
    /\ b_pc = "loop"
    /\ attempts' = [attempts EXCEPT ![b_i] = @ + 1]
    /\ rendered' = IF files[b_i] = "ok" THEN rendered \cup {b_i} ELSE rendered
    /\ failed' = IF files[b_i] \in {"load_raises", "render_raises"}
                 THEN failed \cup {b_i} ELSE failed
    /\ IF files[b_i] = "hangs" THEN b_pc' = "hung" /\ UNCHANGED b_i
       ELSE IF b_i = Len(files) THEN b_pc' = "done" /\ UNCHANGED b_i
       ELSE b_i' = b_i + 1 /\ UNCHANGED b_pc
    /\ UNCHANGED files
    /\ BatchFrame

NextBatch == Start \/ ProcessFile

InitBatchSpec ==
    /\ InitBatch /\ models = <<>> /\ textures = {}
    /\ IdleRender /\ IdleSprite /\ IdleResolve /\ IdleMerge /\ IdlePaste

SpecBatch == InitBatchSpec /\ [][NextBatch]_vars

-----------------------------------------------------------------------------
(* src/utils.py: isometric_projection, and the paste position computed by  *)
(* render (specification SpecPaste).                                       *)

scale == 32
canvas_width == 2000
canvas_height == 2000

\* math.cos(math.radians(30)) to five decimals, COS30 / CosUnit; on the
\* coordinates of the model int() of the paste abscissa computed with it is
\* the one Python computes with the double.
COS30 == 86603
CosUnit == 100000

Abs(n) == IF n < 0 THEN -n ELSE n

RECURSIVE Log2(_)
Log2(n) == IF n <= 1 THEN 0 ELSE 1 + Log2(n \div 2)

RECURSIVE Pow2(_)
Pow2(k) == IF k = 0 THEN 1 ELSE 2 * Pow2(k - 1)

IsPow2(n) == n = Pow2(Log2(n))

\* int(): truncation toward zero of n / d.
Trunc(n, d) == IF n >= 0 THEN n \div d ELSE -((-n) \div d)

\* A double near an integer is kept as the integer n and a residue r, in
\* units of 2^-52, which is zero or plus or minus a power of two.
\* Ulp: the spacing of the doubles at n + r, in the same units.
Ulp(n, r) ==
    IF IsPow2(Abs(n)) /\ r # 0 /\ (r < 0) = (n > 0) /\ Log2(Abs(n)) > 0
    THEN Pow2(Log2(Abs(n)) - 1)
    ELSE Pow2(Log2(Abs(n)))

\* The residue after rounding n + r to the nearest double (ties to even).
FlRound(n, r) == IF n = 0 \/ Abs(r) >= Ulp(n, r) THEN r ELSE 0

\* (x + z) * math.sin(math.radians(30)) * scale: the sine is the double just
\* below 0.5, so the product is 16 * (x + z) less this residue.
SinResidue(s) ==
    IF s = 0 THEN 0
    ELSE (IF s > 0 THEN 1 ELSE -1) *
         Pow2(Log2(Abs(s)) + (IF IsPow2(Abs(s)) THEN 3 ELSE 4))

\* iso_x of isometric_projection(x, y, z, scale), in units of 1 / CosUnit.
IsoX(x, y, z) == (x - z) * COS30 * scale

\* iso_y of isometric_projection(x, y, z, scale).
IsoY(x, y, z) ==
    [n |-> y * scale - (x + z) * (scale \div 2),
     r |-> FlRound(y * scale - (x + z) * (scale \div 2), SinResidue(x + z))]

\* px = int(cx + ix - sprite.width // 2)
PasteX(x, y, z) ==
    Trunc((canvas_width \div 2) * CosUnit + IsoX(x, y, z) - ((scale * 4) \div 2) * CosUnit,
          CosUnit)

\* int() of the double n + r.
TruncResidue(n, r) ==
    IF r < 0 /\ n > 0 THEN n - 1
    ELSE IF r > 0 /\ n < 0 THEN n + 1
    ELSE n

\* The double subtractions a - b - half for a = cy, b = iy, one rounding each.
SubtractTwice(a, b, half) ==
    TruncResidue(a - b.n - half, FlRound(a - b.n - half, FlRound(a - b.n, -b.r)))

\* py = int(cy - iy - sprite.height // 2)
PasteY(x, y, z) == SubtractTwice(canvas_height \div 2, IsoY(x, y, z), (scale * 4) \div 2)

InitPaste ==
    /\ p_cell \in (0..MaxExtent) \X (0..MaxExtent) \X (0..MaxExtent)
    /\ p_at = None
    /\ p_pc = "project"

\* The paste of the sprite of the non-air block at p_cell.
Paste ==
    /\ p_pc = "project"
    /\ p_at' = <<PasteX(p_cell[1], p_cell[2], p_cell[3]), PasteY(p_cell[1], p_cell[2], p_cell[3])>>
    /\ p_pc' = "pasted"
    /\ UNCHANGED p_cell
    /\ UNCHANGED <<assetVars, renderVars, spriteVars, resolveVars, mergeVars, batchVars>>

NextPaste == Paste

InitPasteSpec ==
    /\ InitPaste /\ models = <<>> /\ textures = {}
    /\ IdleRender /\ IdleSprite /\ IdleResolve /\ IdleMerge /\ IdleBatch

SpecPaste == InitPasteSpec /\ [][NextPaste]_vars

-----------------------------------------------------------------------------
(* Claims about the render pass (specification Spec).                      *)

\* Strictly ascending in (Y, then Z, then X).
LexLess(a, b) ==
    \/ a[2] < b[2]
    \/ a[2] = b[2] /\ a[3] < b[3]
    \/ a[2] = b[2] /\ a[3] = b[3] /\ a[1] < b[1]

IsOpaque(id) == id # AIR /\ ~is_transparent(id)

\* C1: render visits the blocks, and pastes their sprites, in strictly
\* ascending lexicographic order of (Y, Z, X); so of two distinct pasted
\* blocks A, B with every coordinate of A <= that of B, A is pasted first;
\* and the finished sweep has visited every cell.
C1_PasteOrder ==
    /\ \A i, j \in DOMAIN visits : i < j => LexLess(visits[i].cell, visits[j].cell)
    /\ \A i, j \in DOMAIN canvas : i < j => LexLess(canvas[i].cell, canvas[j].cell)
    /\ \A i, j \in DOMAIN canvas :
          /\ canvas[i].cell # canvas[j].cell
          /\ \A k \in 1..3 : canvas[i].cell[k] <= canvas[j].cell[k]
          => i < j
    /\ rpc \in {"swept", "saved"} => {visits[i].cell : i \in DOMAIN visits} = Cells

\* A finished pass that pasted a block with a larger X before one with a
\* smaller X (lower Z wins over X), and a lower layer before an upper one.
C1_Witness ==
    /\ rpc = "saved"
    /\ \E i, j \in DOMAIN canvas :
          i < j /\ canvas[i].cell[1] > canvas[j].cell[1] /\ canvas[i].cell[3] < canvas[j].cell[3]
    /\ \E i, j \in DOMAIN canvas : i < j /\ canvas[i].cell[2] < canvas[j].cell[2]

\* The neighbour of cell c one step in direction d is outside the region,
\* air, or transparent.
OpenSide(c, d) ==
    LET n == Neighbor(c, d)
    IN  n \notin Cells \/ reg[n] = AIR \/ is_transparent(reg[n])

FaceSet(v) == {v.visible_faces[i] : i \in DOMAIN v.visible_faces}

\* C2: for an opaque block and each of east, south, up: the direction is
\* in the visible-face set iff the neighbour that way is out of bounds,
\* air or transparent.
C2_OpaqueCulling ==
    \A i \in DOMAIN visits :
        IsOpaque(visits[i].block) =>
            \A d \in {"east", "south", "up"} :
                d \in FaceSet(visits[i]) <=> OpenSide(visits[i].cell, d)

\* An opaque block with a transparent east neighbour, an opaque south
\* neighbour and air above was visited and got <<east, up>>.
C2_Witness ==
    \E i \in DOMAIN visits :
        /\ IsOpaque(visits[i].block)
        /\ Neighbor(visits[i].cell, "east") \in Cells
        /\ is_transparent(reg[Neighbor(visits[i].cell, "east")])
        /\ Neighbor(visits[i].cell, "south") \in Cells
        /\ IsOpaque(reg[Neighbor(visits[i].cell, "south")])
        /\ Neighbor(visits[i].cell, "up") \in Cells
        /\ reg[Neighbor(visits[i].cell, "up")] = AIR
        /\ visits[i].visible_faces = <<"east", "up">>

\* An opaque block whose three neighbours are opaque was visited and got
\* the empty visible-face set.
C2_AllHiddenReached ==
    \E i \in DOMAIN visits :
        /\ IsOpaque(visits[i].block)
        /\ \A d \in {"east", "south", "up"} :
              /\ Neighbor(visits[i].cell, d) \in Cells
              /\ IsOpaque(reg[Neighbor(visits[i].cell, d)])
        /\ visits[i].visible_faces = <<>>

\* C3: for a transparent block and each of east, south, up: the face is
\* removed exactly when the neighbour that way is inside the region and has
\* the identical identifier.
C3_TransparentCulling ==
    \A i \in DOMAIN visits :
        is_transparent(visits[i].block) =>
            \A d \in {"east", "south", "up"} :
                d \notin FaceSet(visits[i]) <=>
                    /\ Neighbor(visits[i].cell, d) \in Cells
                    /\ reg[Neighbor(visits[i].cell, d)] = visits[i].block

\* A transparent block was visited whose east neighbour is identical (face
\* removed), whose south neighbour is a different transparent block and
\* whose upper neighbour is opaque (both faces kept).
C3_Witness ==
    \E i \in DOMAIN visits :
        LET c == visits[i].cell
        IN  /\ is_transparent(visits[i].block)
            /\ \A d \in {"east", "south", "up"} : Neighbor(c, d) \in Cells
            /\ reg[Neighbor(c, "east")] = visits[i].block
            /\ is_transparent(reg[Neighbor(c, "south")])
            /\ reg[Neighbor(c, "south")] # visits[i].block
            /\ IsOpaque(reg[Neighbor(c, "up")])
            /\ visits[i].visible_faces = <<"south", "up">>

\* The identifier has no manual mapping, no block or item model in the
\* store, and no built-in fallback.
Unresolvable(store, id) ==
    LET name == Replace(id, MC, <<>>)
    IN  /\ name \notin DOMAIN BLOCK_MODEL_MAP
        /\ <<"block", name>> \notin DOMAIN store
        /\ <<"item", name>> \notin DOMAIN store
        /\ id \notin {<<"minecraft:", "water">>, <<"minecraft:", "lava">>}
        /\ ~Contains(id, <<"_sign">>)

\* C4: a block whose identifier is unresolvable gets the empty model and no
\* sprite, nothing is pasted for it, no error escapes (the pass neither
\* raises nor hangs), and the sweep goes on to the cell after it, through
\* the last cell of the region.
C4_UnknownBlockSkipped ==
    /\ \A i \in DOMAIN visits :
          Unresolvable(models, visits[i].block) /\ visits[i].block # AIR =>
              /\ ParseModel(models, visits[i].block, 1) = EmptyDict
              /\ visits[i].outcome = "none"
              /\ \A j \in DOMAIN canvas : canvas[j].cell # visits[i].cell
              /\ \A k \in DOMAIN block_sprites : k[1] # visits[i].block
              /\ IF LastCell(visits[i].cell)
                 THEN rpc \in {"swept", "saved"}
                 ELSE \/ i < Len(visits) /\ visits[i + 1].cell = NextCell(visits[i].cell)
                      \/ i = Len(visits) /\ rpc = "sweep" /\ xyz = NextCell(visits[i].cell)
    /\ rpc \in {"swept", "saved"} => Len(visits) = Cardinality(Cells)

\* A finished pass in which an unresolvable block was followed by a block
\* whose sprite was pasted.
C4_Witness ==
    /\ rpc = "saved"
    /\ \E i, j \in DOMAIN visits :
          /\ i < j
          /\ Unresolvable(models, visits[i].block) /\ visits[i].block # AIR
          /\ visits[j].outcome \in {"rendered", "cached"}
          /\ \E k \in DOMAIN canvas : canvas[k].cell = visits[j].cell

-----------------------------------------------------------------------------
(* Claims about render_block_to_sprite (SpecSprite and FairSpecSprite).    *)

\* C5: texture-variable resolution ends after finitely many steps: every
\* run of the while loop that resolves a face's texture reference ends
\* (with a literal, a missing variable, or a detected cycle), and the face
\* loop goes on with the remaining faces.
C5_ResolutionEnds == (sp_pc = "while") ~> (sp_pc # "while")

\* The position of a face in render_order.
OrderOf(face_name) == CHOOSE i \in 1..Len(render_order) : render_order[i] = face_name

\* C11: on one sprite tile no east or south face is pasted after an up face
\* has been pasted, whatever the number of elements of the model.
C11_UpPaintedLast ==
    \A i, j \in 1..Len(sp_sprite) :
        i < j /\ sp_sprite[i].face = "up" => sp_sprite[j].face = "up"

\* The same within each element: its faces are pasted in the order east,
\* south, up, and the elements one after the other.
C11_OrderWithinElement ==
    \A i, j \in 1..Len(sp_sprite) :
        i < j =>
            /\ sp_sprite[i].element <= sp_sprite[j].element
            /\ sp_sprite[i].element = sp_sprite[j].element =>
                  OrderOf(sp_sprite[i].face) < OrderOf(sp_sprite[j].face)

C11_AllThreePasted ==
    /\ sp_pc = "done"
    /\ Len(sp_model.v["elements"].v) = 1
    /\ [i \in 1..Len(sp_sprite) |-> sp_sprite[i].face] = render_order

-----------------------------------------------------------------------------
(* Claims about parse_model (specification SpecResolve).                   *)

\* The stepped parse_model and the operator ParseModel give the same result.
ResolveAgrees ==
    /\ rs_pc = "done" => rs_ret = ParseModel(models, rs_name, 1)
    /\ rs_pc = "raised" => ParseModel(models, rs_name, 1) = Raised

\* C6: parent-chain resolution terminates: parse_model returns a model
\* after following finitely many parent references; it never ends in an
\* exception, and never has more calls waiting than there are models.
C6_ParentChainTerminates ==
    /\ rs_pc # "raised"
    /\ Len(rs_stack) <= Cardinality(DOMAIN models)

C6_RaisedReached == rs_pc = "raised"

C6_DoneWithParents == rs_pc = "done" /\ rs_found # None /\ HasParent(rs_found)

\* The lookups as the specification words them.
Stripped(name) == IF StartsWith(name, MC) THEN DropFirst(name, 1) ELSE name

OverrideOrName(name) ==
    IF Stripped(name) \in DOMAIN BLOCK_MODEL_MAP
    THEN Stripped(BLOCK_MODEL_MAP[Stripped(name)]) ELSE Stripped(name)

AsGivenOrBlock(ref) ==
    IF ref[1] \in {"block/", "item/"}
    THEN <<IF ref[1] = "item/" THEN "item" ELSE "block", DropFirst(ref, 1)>>
    ELSE <<"block", ref>>

UnderItem(name) ==
    <<"item", IF Stripped(name)[1] = "block/" THEN DropFirst(Stripped(name), 1)
              ELSE Stripped(name)>>

IsFluid(name) == Stripped(name) \in {<<"water">>, <<"lava">>}

IsSign(name) == \E i \in 1..Len(name) : name[i] = "_sign"

Planks(name) == <<"block/", Stripped(name)[1], "_planks">>

StrategyInOrder(store, name) ==
    IF AsGivenOrBlock(OverrideOrName(name)) \in DOMAIN store THEN "block"
    ELSE IF name[1] # "item/" /\ UnderItem(name) \in DOMAIN store THEN "item"
    ELSE IF IsFluid(name) THEN "fluid"
    ELSE IF IsSign(name) THEN "sign"
    ELSE "none"

Box(model, from, to) ==
    /\ IsDict(model) /\ "elements" \in DOMAIN model.v
    /\ Len(model.v["elements"].v) = 1
    /\ model.v["elements"].v[1].v["from"] = List([i \in 1..3 |-> Num(from[i])])
    /\ model.v["elements"].v[1].v["to"] = List([i \in 1..3 |-> Num(to[i])])

\* C10: the outermost call of parse_model uses the first strategy, in the
\* order override-or-name, item/<name>, synthetic fallback, that yields a
\* model: the stored model of the first two, the unit cube with a single
\* texture for water and lava with or without the namespace prefix, the
\* thin board with the wood's planks for a sign.
C10_StrategyOrder ==
    rs_found # None =>
        /\ rs_found.strategy = StrategyInOrder(models, rs_name)
        /\ rs_found.strategy = "block" =>
              rs_found.model_data = models[AsGivenOrBlock(OverrideOrName(rs_name))]
        /\ rs_found.strategy = "item" => rs_found.model_data = models[UnderItem(rs_name)]
        /\ rs_found.strategy = "fluid" =>
              /\ Box(rs_found.model_data, <<0, 0, 0>>, <<16, 16, 16>>)
              /\ Cardinality(DOMAIN rs_found.model_data.v["textures"].v) = 1
        /\ rs_found.strategy = "sign" =>
              /\ Box(rs_found.model_data, <<0, 4, 0>>, <<16, 12, 2>>)
              /\ rs_found.model_data.v["textures"].v["all"] = Str(Planks(rs_name))

\* The same, for every name but the fluids without the namespace prefix.
C10_OrderButBareFluid ==
    rs_name \notin {<<"water">>, <<"lava">>} => C10_StrategyOrder

C10_EachStrategyUsed(strategy) == rs_found # None /\ rs_found.strategy = strategy

C10_FluidReached == C10_EachStrategyUsed("fluid")

C10_SignReached == C10_EachStrategyUsed("sign")

C10_ItemReached == C10_EachStrategyUsed("item")

-----------------------------------------------------------------------------
(* Claims about deep_assign (specification SpecMerge).                     *)

\* The merge as the specification words it: the child's value at every key
\* of the child, the parent's at the keys of the parent alone, and two
\* mappings at the same key merged key by key.
RECURSIVE ChildOverParent(_, _)
ChildOverParent(parent, child) ==
    Dict([key \in (DOMAIN parent.v) \cup (DOMAIN child.v) |->
            IF key \notin DOMAIN child.v THEN parent.v[key]
            ELSE IF key \in DOMAIN parent.v /\ IsDict(parent.v[key]) /\ IsDict(child.v[key])
                 THEN ChildOverParent(parent.v[key], child.v[key])
                 ELSE child.v[key]])

\* C7: deep-merging a child over its parent gives, for every combination of
\* value shapes, the child's value at every key path of the child, keeps the
\* keys of the parent alone, and merges nested mappings key by key.
C7_ChildWins == m_pc = "done" => m_result = ChildOverParent(m_target, m_source)

\* The same, when no key holds a mapping in the child and something else
\* than a mapping in the parent.
RECURSIVE SameShapes(_, _)
SameShapes(parent, child) ==
    \A key \in (DOMAIN parent.v) \cap (DOMAIN child.v) :
        IsDict(child.v[key]) =>
            /\ IsDict(parent.v[key])
            /\ SameShapes(parent.v[key], child.v[key])

C7_ChildWinsOnSameShapes ==
    m_pc = "done" /\ SameShapes(m_target, m_source) =>
        m_result = ChildOverParent(m_target, m_source)

C7_RaiseReached == m_pc = "done" /\ m_result = Raised

C7_ParentScalarKept ==
    /\ m_pc = "done" /\ m_result # Raised
    /\ "a" \in DOMAIN m_source.v /\ m_source.v["a"] = EmptyDict
    /\ m_result.v["a"] = Str(<<"x">>)

\* C8: merging a definition with the empty definition, as child or as
\* parent, gives the definition, and merging a definition over itself gives
\* the definition.
C8_MergeIdempotent ==
    m_pc = "done" =>
        /\ m_source = EmptyDict => m_result = m_target
        /\ m_target = EmptyDict => m_result = m_source
        /\ m_target = m_source => m_result = m_source

\* A definition with a nested mapping has been merged over the empty one.
C8_Witness ==
    /\ m_pc = "done"
    /\ m_target = EmptyDict
    /\ "a" \in DOMAIN m_source.v
    /\ IsDict(m_source.v["a"]) /\ m_source.v["a"] # EmptyDict
    /\ m_result = m_source

C8_EmptyChildReached ==
    m_pc = "done" /\ m_source = EmptyDict /\ m_target # EmptyDict /\ m_result = m_target

C8_SelfMergeReached ==
    /\ m_pc = "done" /\ m_target = m_source /\ m_result = m_source
    /\ \E key \in DOMAIN m_source.v : IsDict(m_source.v[key]) /\ m_source.v[key] # EmptyDict

-----------------------------------------------------------------------------
(* Claims about batch mode (specification SpecBatch).                      *)

Raises(i) == files[i] \in {"load_raises", "render_raises"}

\* C9: in batch mode no file is attempted twice; a file whose load or
\* render raised is reported and the loop has gone on past it; a file that
\* was attempted and is fine is rendered; and when main returns every file
\* has been attempted exactly once, whatever raised before it.
C9_EveryFileAttemptedOnce ==
    /\ \A i \in 1..Len(files) :
          /\ attempts[i] <= 1
          /\ attempts[i] = 1 /\ Raises(i) => i \in failed /\ (b_i > i \/ b_pc = "done")
          /\ attempts[i] = 1 /\ files[i] = "ok" => i \in rendered
          /\ b_pc = "loop" => (attempts[i] = 1 <=> i < b_i)
    /\ b_pc = "done" =>
          /\ \A i \in 1..Len(files) : attempts[i] = 1
          /\ failed = {i \in 1..Len(files) : Raises(i)}
          /\ rendered = {i \in 1..Len(files) : files[i] = "ok"}

\* main has returned after a load failure, a render failure and a file
\* rendered after both.
C9_Witness ==
    /\ b_pc = "done"
    /\ files = <<"load_raises", "render_raises", "ok">>
    /\ failed = {1, 2}
    /\ rendered = {3}
    /\ attempts = <<1, 1, 1>>

-----------------------------------------------------------------------------
(* Claims about the sprite cache of a render pass (specification Spec).    *)

\* The requests made to render_block_to_sprite so far, in order.
Requests == SelectSeq(visits, LAMBDA v : v.block # AIR)

KeyOf(v) == <<v.block, {v.visible_faces[i] : i \in DOMAIN v.visible_faces}>>

\* C12: render_block_to_sprite is memoized by (block identifier, set of
\* visible faces) within a render pass: of the requests with one key only
\* the first resolves the model, it creates the entry of the key, and every
\* later one is answered from that entry.
C12_ResolvedOncePerKey ==
    \A i, j \in 1..Len(Requests) :
        i < j /\ KeyOf(Requests[i]) = KeyOf(Requests[j]) =>
            /\ Requests[i].outcome = "rendered"
            /\ Requests[j].outcome = "cached"

\* The same for the keys whose first request gave a sprite, with the image
\* pasted for the key being the same every time.
C12_MemoizedOnceRendered ==
    /\ \A i, j \in 1..Len(Requests) :
          (/\ i < j
           /\ KeyOf(Requests[i]) = KeyOf(Requests[j])
           /\ Requests[i].outcome \in {"rendered", "cached"})
          => Requests[j].outcome = "cached"
    /\ \A i, j \in 1..Len(canvas) :
          \A v, w \in {visits[n] : n \in 1..Len(visits)} :
              (/\ v.cell = canvas[i].cell
               /\ w.cell = canvas[j].cell
               /\ KeyOf(v) = KeyOf(w))
              => canvas[i].sprite = canvas[j].sprite

\* An entry of the cache is never replaced or removed.
C12_EntriesKept ==
    [][\A k \in DOMAIN block_sprites :
          k \in DOMAIN block_sprites' /\ block_sprites'[k] = block_sprites[k]]_vars

C12_CacheHitReached ==
    \E i \in 1..Len(Requests) : Requests[i].outcome = "cached"

C12_ResolvedTwiceReached ==
    \E i, j \in 1..Len(Requests) :
        /\ i < j /\ KeyOf(Requests[i]) = KeyOf(Requests[j])
        /\ Requests[i].outcome = "none" /\ Requests[j].outcome = "none"

-----------------------------------------------------------------------------
(* Claims about the paste position (specification SpecPaste).              *)

\* C13: the rectangle where the sprite of a block is pasted, 4 * scale wide
\* and high from (px, py), lies inside the canvas whatever the coordinates
\* of the block.
C13_PasteInsideCanvas ==
    p_pc = "pasted" =>
        /\ 0 <= p_at[1] /\ p_at[1] + 4 * scale <= canvas_width
        /\ 0 <= p_at[2] /\ p_at[2] + 4 * scale <= canvas_height

\* The same for the blocks with every coordinate below 30.
C13_InsideNearOrigin ==
    (\A i \in 1..3 : p_cell[i] < 30) => C13_PasteInsideCanvas

C13_AboveCanvasReached == p_pc = "pasted" /\ p_cell = <<0, 30, 0>> /\ p_at = <<936, -24>>

C13_RightOfCanvasReached == p_pc = "pasted" /\ p_cell = <<34, 0, 0>> /\ p_at = <<1878, 1480>>

C13_LeftOfCanvasReached == p_pc = "pasted" /\ p_cell = <<0, 0, 34>> /\ p_at = <<-6, 1480>>

C13_BelowCanvasReached == p_pc = "pasted" /\ p_cell = <<30, 0, 30>> /\ p_at = <<936, 1896>>

C13_RoundedDownReached == p_pc = "pasted" /\ p_cell = <<0, 17, 34>> /\ p_at = <<-6, 935>>

=============================================================================
